---------------------------- MODULE Spec2Model ----------------------------
(***************************************************************************)
(* AWS Signature Version 4 signing and verification (package aws4).        *)
(*                                                                         *)
(* Python strings and bytes are TLA+ strings; the str methods the code     *)
(* calls (partition, split, join, lower, replace, re.sub) are operators    *)
(* over them.  SHA-256 and HMAC-SHA256 are ideal: a digest is an injective *)
(* encoding of its inputs over [0-9A-Za-z_.], so that two digests are      *)
(* equal exactly when their inputs are (no collisions) and a digest holds  *)
(* none of the characters the Authorization header is parsed on.           *)
(* A header mapping (multidict.CIMultiDict) is a sequence of entries       *)
(* [key, value] with case-insensitive lookup; a value is a str or a list   *)
(* of str.  A datetime is a wall-clock reading in ticks with an optional   *)
(* UTC offset.                                                             *)
(***************************************************************************)
EXTENDS Integers, Sequences, FiniteSets, TLC

VARIABLES
    pc,         \* position of the caller: which call comes next
    req,        \* the arguments of sign_request (headers as before the call)
    signed,     \* outcome of sign_request: the mapping it returns
    resigned,   \* outcome of a second sign_request on the returned mapping
    wire,       \* the request as it reaches generate_challenge
    tampered,   \* which component was changed between signing and verifying
    now,        \* datetime.datetime.now(timezone.utc) at generate_challenge
    chal,       \* outcome of generate_challenge: a Challenge or an error
    key,        \* the secret key handed to validate_challenge
    verdict,    \* outcome of validate_challenge
    hdrs,       \* header mapping handed to the canonicalizer alone
    canon,      \* outcome of _generate_canonical_headers on hdrs
    shdrs,      \* signed-header list handed to _recreate_canonical_headers
    recanon,    \* outcome of _recreate_canonical_headers
    qs,         \* raw query handed to _generate_canonical_query_string
    cqs         \* outcome of _generate_canonical_query_string on qs

vars == <<pc, req, signed, resigned, wire, tampered, now, chal, key, verdict, hdrs, canon, shdrs, recanon, qs, cqs>>

----------------------------------------------------------------------------
(* Characters.  Code points are those of ASCII; the double quote (34) and  *)
(* the backquote (96) are left out of the alphabet.                        *)

CharsLow == " !"
CharsMid == "#$%&'()*+,-./0123456789:;<=>?@ABCDEFGHIJKLMNOPQRSTUVWXYZ[\\]^_"
CharsHigh == "abcdefghijklmnopqrstuvwxyz{|}~"
NL == "\n"
UpperLetters == "ABCDEFGHIJKLMNOPQRSTUVWXYZ"
LowerLetters == "abcdefghijklmnopqrstuvwxyz"
HexDigits == "0123456789ABCDEF"

At(s, i) == SubSeq(s, i, i)

CharsOf(s) == {At(s, i) : i \in 1..Len(s)}

Alphabet == CharsOf(CharsLow) \cup CharsOf(CharsMid) \cup CharsOf(CharsHigh) \cup {NL}

IndexIn(s, c) == CHOOSE i \in 1..Len(s) : At(s, i) = c

\* ord(c)
OrdTable ==
    [c \in Alphabet |->
        IF c = NL THEN 10
        ELSE IF c \in CharsOf(CharsLow) THEN 31 + IndexIn(CharsLow, c)
        ELSE IF c \in CharsOf(CharsMid) THEN 34 + IndexIn(CharsMid, c)
        ELSE 96 + IndexIn(CharsHigh, c)]

Ord(c) == OrdTable[c]

\* "%02X" % n without the percent sign
Hex2(n) == At(HexDigits, (n \div 16) + 1) \o At(HexDigits, (n % 16) + 1)

AlnumChars == CharsOf(UpperLetters) \cup CharsOf(LowerLetters) \cup CharsOf(SubSeq(HexDigits, 1, 10))

\* Apply a per-character table to a string (halving keeps the recursion shallow).
RECURSIVE MapChars(_, _)
MapChars(table, s) ==
    IF Len(s) = 0 THEN ""
    ELSE IF Len(s) = 1 THEN table[s]
    ELSE LET h == Len(s) \div 2
         IN  MapChars(table, SubSeq(s, 1, h)) \o MapChars(table, SubSeq(s, h + 1, Len(s)))

LowerTable ==
    [c \in Alphabet |-> IF c \in CharsOf(UpperLetters) THEN At(LowerLetters, IndexIn(UpperLetters, c)) ELSE c]

\* str.lower()
Lower(s) == MapChars(LowerTable, s)

\* str.startswith at an offset: does sub occur in s at position i?
OccursAt(s, sub, i) == i + Len(sub) - 1 <= Len(s) /\ SubSeq(s, i, i + Len(sub) - 1) = sub

\* the least element of a set of positions, 0 for the empty set
LeastOrZero(S) == IF S = {} THEN 0 ELSE CHOOSE i \in S : \A j \in S : i <= j

\* str.find, 1-based, 0 when absent
Find(s, sub) == LeastOrZero({i \in 1..(Len(s) - Len(sub) + 1) : OccursAt(s, sub, i)})

\* s cut at an occurrence of sep at position i (0: no occurrence)
CutAt(s, sep, i) ==
    IF i = 0 THEN <<s, "", "">>
    ELSE <<SubSeq(s, 1, i - 1), sep, SubSeq(s, i + Len(sep), Len(s))>>

\* str.partition(sep)
Partition(s, sep) == CutAt(s, sep, Find(s, sep))

\* str.split(sep)
RECURSIVE Split(_, _)
SplitCut(cut, sep) == IF cut[2] = "" THEN <<cut[1]>> ELSE <<cut[1]>> \o Split(cut[3], sep)
Split(s, sep) == SplitCut(Partition(s, sep), sep)

\* str.split(sep, maxsplit=1)
SplitOnce(s, sep) ==
    IF Find(s, sep) = 0 THEN <<s>> ELSE <<Partition(s, sep)[1], Partition(s, sep)[3]>>

\* sep.join(parts)
RECURSIVE Join(_, _)
Join(parts, sep) ==
    IF Len(parts) = 0 THEN ""
    ELSE IF Len(parts) = 1 THEN parts[1]
    ELSE parts[1] \o sep \o Join(Tail(parts), sep)

\* str.replace(old, new)
RECURSIVE Replace(_, _, _)
ReplaceCut(cut, old, new) ==
    IF cut[2] = "" THEN cut[1] ELSE cut[1] \o new \o Replace(cut[3], old, new)
Replace(s, old, new) == ReplaceCut(Partition(s, old), old, new)

\* s < t in Python's ordering of str (by code point, a proper prefix first)
RECURSIVE StrLess(_, _)
StrLess(s, t) ==
    IF Len(t) = 0 THEN FALSE
    ELSE IF Len(s) = 0 THEN TRUE
    ELSE IF Head(s) = Head(t) THEN StrLess(Tail(s), Tail(t))
    ELSE Ord(Head(s)) < Ord(Head(t))

\* _MULTI_SPACE_REGEX.sub(" ", value): every maximal run of spaces becomes one
\* space (by halves: a run cut by the middle is rejoined)
RECURSIVE CollapseSpaces(_)
CollapseSpaces(s) ==
    IF Len(s) <= 1 THEN s
    ELSE LET h == Len(s) \div 2
             l == CollapseSpaces(SubSeq(s, 1, h))
             r == CollapseSpaces(SubSeq(s, h + 1, Len(s)))
         IN  IF At(l, Len(l)) = " " /\ At(r, 1) = " " THEN l \o Tail(r) ELSE l \o r

----------------------------------------------------------------------------
(* Optional values: None is the empty sequence, a present value v is <<v>>. *)

None == <<>>
Some(v) == <<v>>
IsNone(o) == Len(o) = 0
Value(o) == o[1]

----------------------------------------------------------------------------
(* Digests.  Encode is injective and maps into [0-9A-Za-z_], so a digest    *)
(* "<algorithm>.<encoded input>..." determines its inputs.                  *)

EncodeTable == [c \in Alphabet |-> IF c \in AlnumChars THEN c ELSE "_" \o Hex2(Ord(c))]

Encode(s) == MapChars(EncodeTable, s)

\* sha256_hash(data): data is None, bytes or str
sha256_hash(data) ==
    LET data_ == IF IsNone(data) \/ Value(data) = "" THEN "" ELSE Value(data)
    IN  "sha256." \o Encode(data_)

\* _hmac_hash(key, data, hexdigest=...)
hmac_hash(k, data, hexdigest) ==
    (IF hexdigest THEN "hmachex." ELSE "hmac.") \o Encode(k) \o "." \o Encode(data)

QuoteTable ==
    [c \in Alphabet |->
        IF c \in AlnumChars \/ c \in {"_", ".", "-", "~", "/"} THEN c ELSE "%" \o Hex2(Ord(c))]

\* _quote(resource) with the default safe="/"
quote(resource) == Replace(MapChars(QuoteTable, resource), "%7E", "~")

----------------------------------------------------------------------------
(* Dates.  A datetime is [day, tick, tz]: day counts days from 1970-01-01, *)
(* tick the ticks since midnight of the wall clock, tz is None (naive) or   *)
(* Some(utc offset in seconds).                                             *)

TicksPerSecond == 2
DayTicks == 86400 * TicksPerSecond

\* floor division (Python's //), for a positive divisor
FloorDiv(a, b) == IF a >= 0 THEN a \div b ELSE -((-a + b - 1) \div b)

\* the day number of the civil date y-m-d (proleptic Gregorian calendar), with
\* the year counted from March: yoe is the year of the 400-year era, doy the
\* day of that year
DaysOfEra(era, yoe, doy) == era * 146097 + yoe * 365 + (yoe \div 4) - (yoe \div 100) + doy - 719468

DaysOfYear(y, doy) == DaysOfEra(FloorDiv(y, 400), y - FloorDiv(y, 400) * 400, doy)

DaysFromCivil(y, m, d) ==
    DaysOfYear(IF m <= 2 THEN y - 1 ELSE y,
               ((153 * (IF m > 2 THEN m - 3 ELSE m + 9) + 2) \div 5) + d - 1)

\* the civil date <<year, month, day>> of a day number, the inverse of the above
CivilOfMonth(y, doy, mp) ==
    <<y + (IF mp < 10 THEN 0 ELSE 1), IF mp < 10 THEN mp + 3 ELSE mp - 9, doy - ((153 * mp + 2) \div 5) + 1>>

CivilOfDay(y, doy) == CivilOfMonth(y, doy, (5 * doy + 2) \div 153)

CivilOfYear(era, doe, yoe) ==
    CivilOfDay(yoe + era * 400, doe - (365 * yoe + (yoe \div 4) - (yoe \div 100)))

CivilOfEra(era, doe) ==
    CivilOfYear(era, doe, (doe - (doe \div 1460) + (doe \div 36524) - (doe \div 146096)) \div 365)

CivilOfShifted(z) == CivilOfEra(FloorDiv(z, 146097), z - FloorDiv(z, 146097) * 146097)

CivilFromDays(z) == CivilOfShifted(z + 719468)

IsLeap(y) == (y % 4 = 0 /\ y % 100 # 0) \/ y % 400 = 0

DaysInMonth(y, m) ==
    IF m = 2 THEN (IF IsLeap(y) THEN 29 ELSE 28)
    ELSE IF m \in {4, 6, 9, 11} THEN 30 ELSE 31

Pad2(n) == At(HexDigits, ((n \div 10) % 10) + 1) \o At(HexDigits, (n % 10) + 1)

\* _to_utc(value)
to_utc(value) ==
    IF IsNone(value.tz) THEN value
    ELSE LET t == value.tick - Value(value.tz) * TicksPerSecond
         IN  [day |-> value.day + FloorDiv(t, DayTicks), tick |-> t - FloorDiv(t, DayTicks) * DayTicks, tz |-> None]

FormatCivil(c) == Pad2(c[1] \div 100) \o Pad2(c[1] % 100) \o Pad2(c[2]) \o Pad2(c[3])

\* strftime("%Y%m%d")
FormatDate(value) == FormatCivil(CivilFromDays(value.day))

FormatSeconds(s) == Pad2(s \div 3600) \o Pad2((s \div 60) % 60) \o Pad2(s % 60)

\* strftime("%H%M%S")
FormatTime(value) == FormatSeconds(value.tick \div TicksPerSecond)

\* strftime("%Y%m%dT%H%M%SZ")
FormatAmz(value) == FormatDate(value) \o "T" \o FormatTime(value) \o "Z"

\* to_amz_date(value)
to_amz_date(value) == FormatAmz(to_utc(value))

\* to_signer_date(value)
to_signer_date(value) == FormatDate(to_utc(value))

AllDigits(s) == \A i \in 1..Len(s) : At(s, i) \in CharsOf(SubSeq(HexDigits, 1, 10))

RECURSIVE ToInt(_)
ToInt(s) ==
    IF Len(s) = 0 THEN 0
    ELSE 10 * ToInt(SubSeq(s, 1, Len(s) - 1)) + (IndexIn(HexDigits, At(s, Len(s))) - 1)

\* the aware UTC datetime of the fields, or None where a field is out of range
DateOfFields(y, m, d, hh, mi, ss) ==
    IF y < 1 \/ m < 1 \/ m > 12 \/ d < 1 \/ d > DaysInMonth(y, m) \/ hh > 23 \/ mi > 59 \/ ss > 59
    THEN None
    ELSE Some([day |-> DaysFromCivil(y, m, d),
               tick |-> (hh * 3600 + mi * 60 + ss) * TicksPerSecond,
               tz |-> Some(0)])

\* dateutil's parser.parse on the basic ISO-8601 form YYYYMMDDTHHMMSSZ: the
\* aware UTC datetime it denotes, or None where parse raises ParserError.
ParseDate(s) ==
    IF ~(Len(s) = 16 /\ AllDigits(SubSeq(s, 1, 8)) /\ At(s, 9) = "T"
            /\ AllDigits(SubSeq(s, 10, 15)) /\ At(s, 16) = "Z")
    THEN None
    ELSE DateOfFields(ToInt(SubSeq(s, 1, 4)), ToInt(SubSeq(s, 5, 6)), ToInt(SubSeq(s, 7, 8)),
                      ToInt(SubSeq(s, 10, 11)), ToInt(SubSeq(s, 12, 13)), ToInt(SubSeq(s, 14, 15)))

\* the ticks from b to a, both UTC; a difference of more than a day is
\* reported as two days (every limit it is compared with is less)
TicksBetween(a, b) ==
    IF a.day - b.day > 1 THEN 2 * DayTicks
    ELSE IF a.day - b.day < -1 THEN -2 * DayTicks
    ELSE (a.day - b.day) * DayTicks + a.tick - b.tick

\* (a - b).total_seconds() in ticks, for aware datetimes
TotalTicks(a, b) == TicksBetween(to_utc(a), to_utc(b))

Abs(n) == IF n < 0 THEN -n ELSE n

----------------------------------------------------------------------------
(* Header mappings (multidict.CIMultiDict): a sequence of entries          *)
(* [key, value]; a value is [is_list |-> FALSE, v |-> str] or              *)
(* [is_list |-> TRUE, v |-> sequence of str].                              *)

Str(s) == [is_list |-> FALSE, v |-> s]
List(l) == [is_list |-> TRUE, v |-> l]
Entry(k, value) == [key |-> k, value |-> value]

\* positions of the entries of name k (compared case-insensitively)
Positions(headers, k) == {i \in 1..Len(headers) : Lower(headers[i].key) = Lower(k)}

\* k in headers
Contains(headers, k) == Positions(headers, k) # {}

\* the value of the first of the entries at positions pos, or None
ValueAt(headers, pos) == IF pos = {} THEN None ELSE Some(headers[LeastOrZero(pos)].value)

\* headers.get(k): the first entry of that name, or None
Get(headers, k) == ValueAt(headers, Positions(headers, k))

\* the subsequence of seq at the positions Keep
Select(seq, Keep) ==
    [i \in 1..Cardinality(Keep) |-> seq[CHOOSE j \in Keep : Cardinality({l \in Keep : l < j}) = i - 1]]

\* e put in place of the first of the entries at positions pos, the others of
\* pos removed; e appended where pos is empty
PutAt(headers, e, pos) ==
    IF pos = {} THEN Append(headers, e)
    ELSE Select([i \in 1..Len(headers) |-> IF i = LeastOrZero(pos) THEN e ELSE headers[i]],
                {i \in 1..Len(headers) : i = LeastOrZero(pos) \/ i \notin pos})

\* headers[k] = value: the first entry of that name is replaced, the others
\* of that name are removed; without one the entry is appended
SetItem(headers, k, value) == PutAt(headers, Entry(k, value), Positions(headers, k))

----------------------------------------------------------------------------
(* Sorting, as sorted() does on a list of tuples or lists of str.           *)

\* a < b for two sequences of str
RECURSIVE ListLess(_, _)
ListLess(a, b) ==
    IF Len(b) = 0 THEN FALSE
    ELSE IF Len(a) = 0 THEN TRUE
    ELSE IF Head(a) = Head(b) THEN ListLess(Tail(a), Tail(b))
    ELSE StrLess(Head(a), Head(b))

RECURSIVE Insert(_, _)
Insert(x, l) ==
    IF Len(l) = 0 THEN <<x>>
    ELSE IF ListLess(x, Head(l)) THEN <<x>> \o l
    ELSE <<Head(l)>> \o Insert(x, Tail(l))

RECURSIVE Sorted(_)
Sorted(l) == IF Len(l) = 0 THEN <<>> ELSE Insert(Head(l), Sorted(Tail(l)))

----------------------------------------------------------------------------
(* Canonicalizer                                                           *)

\* the exclusion tuple without authorization
ExcludedWithoutAuthorization == {"user-agent", "accept", "accept-encoding", "connection"}

\* the exclusion tuple spelled as the headers are usually sent
ExcludedAsSent == {"Authorization", "User-Agent", "Accept", "Accept-Encoding", "Connection"}

\* the names full mode leaves out
ExcludedHeaders == {"authorization", "user-agent", "accept", "accept-encoding", "connection"}

\* ",".join([_MULTI_SPACE_REGEX.sub(" ", value) for value in values_])
CanonicalValue(values) ==
    LET values_ == IF values.is_list THEN values.v ELSE <<values.v>>
    IN  Join([i \in 1..Len(values_) |-> CollapseSpaces(values_[i])], ",")

\* canonical_headers[key_] = value on a dict kept as a sequence of <<key, value>>
DictSet(d, k, value) ==
    IF \E i \in 1..Len(d) : d[i][1] = k
    THEN [i \in 1..Len(d) |-> IF d[i][1] = k THEN <<k, value>> ELSE d[i]]
    ELSE Append(d, <<k, value>>)

\* "\n".join([f"{key}:{value}" for key, value in canonical_headers.items()])
HeaderLines(d) == Join([i \in 1..Len(d) |-> d[i][1] \o ":" \o d[i][2]], NL)

\* ";".join(canonical_headers.keys())
HeaderNames(d) == Join([i \in 1..Len(d) |-> d[i][1]], ";")

\* the pair _generate_canonical_headers returns for the sorted dict d
CanonicalPair(d) == <<HeaderLines(d), HeaderNames(d)>>

\* _generate_canonical_headers(headers): <<canonical_headers, signed_headers>>
generate_canonical_headers(headers) ==
    LET loop[i \in 0..Len(headers)] ==
            IF i = 0 THEN <<>>
            ELSE IF Lower(headers[i].key) \notin ExcludedHeaders
            THEN DictSet(loop[i - 1], Lower(headers[i].key), CanonicalValue(headers[i].value))
            ELSE loop[i - 1]
    IN  CanonicalPair(Sorted(loop[Len(headers)]))

\* x in list
InList(list, x) == \E j \in 1..Len(list) : list[j] = x

\* a restricted mode that compares the names as sent
RecreateAsSent(headers, signed_headers) ==
    LET loop[i \in 0..Len(headers)] ==
            IF i = 0 THEN <<>>
            ELSE IF InList(Split(signed_headers, ";"), headers[i].key)
            THEN DictSet(loop[i - 1], Lower(headers[i].key), CanonicalValue(headers[i].value))
            ELSE loop[i - 1]
    IN  HeaderLines(Sorted(loop[Len(headers)]))

\* _recreate_canonical_headers(headers, signed_headers)
recreate_canonical_headers(headers, signed_headers) ==
    LET loop[i \in 0..Len(headers)] ==
            IF i = 0 THEN <<>>
            ELSE IF InList(Split(signed_headers, ";"), Lower(headers[i].key))
            THEN DictSet(loop[i - 1], Lower(headers[i].key), CanonicalValue(headers[i].value))
            ELSE loop[i - 1]
    IN  HeaderLines(Sorted(loop[Len(headers)]))

\* [params.split("=") for params in ...]
SplitPairs(params) == [i \in 1..Len(params) |-> Split(params[i], "=")]

\* "&".join(["=".join(pair) for pair in ...])
JoinPairs(pairs) == Join([i \in 1..Len(pairs) |-> Join(pairs[i], "=")], "&")

\* _generate_canonical_query_string(query)
generate_canonical_query_string(query) ==
    JoinPairs(Sorted(SplitPairs(Split(IF IsNone(query) THEN "" ELSE Value(query), "&"))))

\* a canonical request that leaves the query string out
CanonicalRequestNoQuery(method, url, canonical_headers, signed_headers, content_sha256) ==
    method \o NL \o quote(IF url.path = "" THEN "/" ELSE url.path) \o NL \o NL
        \o canonical_headers \o NL \o NL \o signed_headers \o NL \o content_sha256

\* the canonical request both hash functions assemble
CanonicalRequest(method, url, canonical_headers, signed_headers, content_sha256) ==
    LET canonical_query_string == generate_canonical_query_string(url.query)
        path == quote(IF url.path = "" THEN "/" ELSE url.path)
    IN  method \o NL \o path \o NL \o canonical_query_string \o NL
            \o canonical_headers \o NL \o NL \o signed_headers \o NL \o content_sha256

\* the pair _generate_canonical_request_hash returns, ch being the pair of
\* _generate_canonical_headers
RequestHashPair(method, url, ch, content_sha256) ==
    <<sha256_hash(Some(CanonicalRequest(method, url, ch[1], ch[2], content_sha256))), ch[2]>>

\* _generate_canonical_request_hash: <<hash, signed_headers>>
generate_canonical_request_hash(method, url, headers, content_sha256) ==
    RequestHashPair(method, url, generate_canonical_headers(headers), content_sha256)

\* a verifier that derives the signed-header line from the mapping
RecreateDerivedList(method, url, headers, signed_headers, content_sha256) ==
    generate_canonical_request_hash(method, url, headers, content_sha256)[1]

\* _recreate_canonical_request_hash
recreate_canonical_request_hash(method, url, headers, signed_headers, content_sha256) ==
    LET canonical_headers == recreate_canonical_headers(headers, signed_headers)
    IN  sha256_hash(Some(CanonicalRequest(method, url, canonical_headers, signed_headers, content_sha256)))

----------------------------------------------------------------------------
(* Key and signature derivation                                            *)

\* generate_signing_key(secret_access_key, date, region, service_name)
generate_signing_key(secret_access_key, date, region, service_name) ==
    LET date_key == hmac_hash("AWS4" \o secret_access_key, date, FALSE)
        date_region_key == hmac_hash(date_key, region, FALSE)
        date_region_service_key == hmac_hash(date_region_key, service_name, FALSE)
    IN  hmac_hash(date_region_service_key, "aws4_request", FALSE)

\* generate_signature(signing_key, string_to_sign)
generate_signature(signing_key, string_to_sign) == hmac_hash(signing_key, string_to_sign, TRUE)

\* seq[:-1]
ButLast(seq) == SubSeq(seq, 1, Len(seq) - 1)

\* validate_challenge once the scope is split: parts is date, region, service
ValidateParts(challenge, secret_access_key, parts) ==
    IF Len(parts) # 3 THEN "ValueError"
    ELSE IF generate_signature(generate_signing_key(secret_access_key, parts[1], parts[2], parts[3]),
                               challenge.string_to_sign) # challenge.signature
    THEN "InvalidSignatureError"
    ELSE "ok"

\* validate_challenge(challenge, secret_access_key): "ok" where it returns None,
\* otherwise the name of the exception it raises
validate_challenge(challenge, secret_access_key) ==
    ValidateParts(challenge, secret_access_key, ButLast(Split(challenge.scope, "/")))

----------------------------------------------------------------------------
(* Signer                                                                  *)

\* the path of netloc[/path]
PathOf(rest) == IF Find(rest, "/") = 0 THEN "" ELSE SubSeq(rest, Find(rest, "/"), Len(rest))

UrlOfRest(scheme, q) == [scheme |-> scheme, path |-> PathOf(q[1]), query |-> Some(q[3])]

UrlAfterScheme(a) == UrlOfRest(Lower(a[1]), Partition(Partition(a[3], "#")[1], "?"))

\* urllib.parse.urlparse(url) for a URL scheme://netloc[/path][?query][#fragment]
urlparse(url) == UrlAfterScheme(Partition(url, "://"))

ContentHeader == "x-amz-content-sha256"
Unsigned == "UNSIGNED-PAYLOAD"
Algorithm == "AWS4-HMAC-SHA256"

\* content_sha256 = sha256_hash(content) if url.scheme == "http" else "UNSIGNED-PAYLOAD"
SignerContentSha256(url, content) ==
    IF url.scheme = "http" THEN sha256_hash(content) ELSE Unsigned

\* the content header set whether or not the mapping has one
WithContentHeaderAlways(headers, content_sha256) ==
    SetItem(headers, ContentHeader, Str(content_sha256))

\* the headers after  if content_header not in headers: headers[content_header] = content_sha256
WithContentHeader(headers, content_sha256) ==
    IF ~Contains(headers, ContentHeader)
    THEN SetItem(headers, ContentHeader, Str(content_sha256))
    ELSE headers

\* scope = f"{to_signer_date(date)}/{region}/{service_name}/aws4_request"
SignerScope(date, region, service_name) ==
    to_signer_date(date) \o "/" \o region \o "/" \o service_name \o "/aws4_request"

\* string_to_sign = f"{algorithm}\n{amz date}\n{scope}\n{canonical_request_hash}"
StringToSign(auth_type, key_date, scope, canonical_request_hash) ==
    auth_type \o NL \o key_date \o NL \o scope \o NL \o canonical_request_hash

\* the Authorization value sign_request writes
AuthorizationValue(access_key_id, scope, signed_headers, signature) ==
    Algorithm \o " Credential=" \o access_key_id \o "/" \o scope
        \o ", SignedHeaders=" \o signed_headers \o ", Signature=" \o signature

\* sign_request from the string-to-sign on: signature and header injection
SignString(headers, scope, signed_headers, access_key_id, signing_key, string_to_sign) ==
    [headers |-> SetItem(headers, "Authorization",
                         Str(AuthorizationValue(access_key_id, scope, signed_headers,
                                                generate_signature(signing_key, string_to_sign)))),
     scope |-> scope,
     string_to_sign |-> string_to_sign]

\* sign_request from the canonical request hash on; crh is <<hash, signed_headers>>
SignHash(headers, scope, crh, region, service_name, access_key_id, secret_access_key, date) ==
    SignString(headers, scope, crh[2], access_key_id,
               generate_signing_key(secret_access_key, to_signer_date(date), region, service_name),
               StringToSign(Algorithm, to_amz_date(date), scope, crh[1]))

\* sign_request once the content hash is chosen
SignContent(service_name, method, url, region, headers, content_sha256, access_key_id, secret_access_key, date) ==
    SignHash(WithContentHeader(headers, content_sha256),
             SignerScope(date, region, service_name),
             generate_canonical_request_hash(method, url, WithContentHeader(headers, content_sha256), content_sha256),
             region, service_name, access_key_id, secret_access_key, date)

\* sign_request once the URL is parsed
SignParsed(service_name, method, url, region, headers, content, access_key_id, secret_access_key, date) ==
    SignContent(service_name, method, url, region, headers, SignerContentSha256(url, content),
                access_key_id, secret_access_key, date)

\* sign_request(...): the mapping it returns, with the scope and the
\* string-to-sign it computed on the way
sign_request(service_name, method, url, region, headers, content, access_key_id, secret_access_key, date) ==
    SignParsed(service_name, method, urlparse(url), region, headers, content,
               access_key_id, secret_access_key, date)

----------------------------------------------------------------------------
(* Verifier                                                                *)

\* k in data, for the dict _parse_authorization builds
HasKey(d, k) == \E i \in 1..Len(d) : d[i][1] = k

\* data[k]
DictGet(d, k) == d[CHOOSE i \in 1..Len(d) : d[i][1] = k][2]

\* data[k.lower()] = v for the part "k=v"
PutPart(d, kv) == DictSet(d, Lower(kv[1]), kv[3])

\* the dict _parse_authorization builds from the parts
AuthData(parts) ==
    LET data[i \in 0..Len(parts)] ==
            IF i = 0 THEN <<>> ELSE PutPart(data[i - 1], Partition(parts[i], "="))
    IN  data[Len(parts)]

\* data.get(k, "")
DictGetOrEmpty(d, k) == IF HasKey(d, k) THEN DictGet(d, k) ELSE ""

\* a parser that reads a missing field as the empty string
AuthOfDataDefaults(auth_type, d) ==
    [err |-> "none", auth_type |-> auth_type,
     credential |-> DictGetOrEmpty(d, "credential"),
     signed_headers |-> DictGetOrEmpty(d, "signedheaders"),
     signature |-> DictGetOrEmpty(d, "signature")]

\* return auth_type, data["credential"], data["signedheaders"], data["signature"]
AuthOfData(auth_type, d) ==
    IF ~HasKey(d, "credential") \/ ~HasKey(d, "signedheaders") \/ ~HasKey(d, "signature")
    THEN [err |-> "KeyError", auth_type |-> auth_type, credential |-> "", signed_headers |-> "", signature |-> ""]
    ELSE [err |-> "none", auth_type |-> auth_type,
          credential |-> DictGet(d, "credential"),
          signed_headers |-> DictGet(d, "signedheaders"),
          signature |-> DictGet(d, "signature")]

AuthOfCut(p) == AuthOfData(p[1], AuthData(Split(p[3], ", ")))

\* _parse_authorization(authorization): err is "KeyError" where a field is missing
parse_authorization(authorization) == AuthOfCut(Partition(authorization, " "))

\* the freshness window of _parse_key_date, in seconds
DriftLimit == 5

\* a drift check that rejects late requests only
DriftLateOnly(clock, header) == TotalTicks(clock, header) > DriftLimit * TicksPerSecond

\* abs(delta) > 5
DriftExceeded(clock, header) == Abs(TotalTicks(clock, header)) > DriftLimit * TicksPerSecond

\* _parse_key_date from parser.parse on: header is the parsed date or None
CheckedKeyDate(key_date, header, clock) ==
    IF IsNone(header) THEN [err |-> "ParserError", key_date |-> ""]
    ELSE IF DriftExceeded(clock, Value(header)) THEN [err |-> "InvalidDateError", key_date |-> ""]
    ELSE [err |-> "none", key_date |-> key_date]

\* _parse_key_date from headers.get on
KeyDateOf(key_date, clock) ==
    IF IsNone(key_date) THEN [err |-> "MissingHeaderError", key_date |-> ""]
    ELSE IF Value(key_date).is_list THEN [err |-> "TypeError", key_date |-> ""]
    ELSE CheckedKeyDate(Value(key_date).v, ParseDate(Value(key_date).v), clock)

\* _parse_key_date(headers) at clock reading clock: the header value, or the error
parse_key_date(headers, clock) == KeyDateOf(Get(headers, "x-amz-date"), clock)

\* headers.get("x-amz-content-sha256", "UNSIGNED-PAYLOAD")
GetOrUnsigned(h) == IF IsNone(h) THEN Str(Unsigned) ELSE Value(h)

\* a verifier that hashes the body whatever the content hash header says
VerifierAlwaysHashes(headers, content) == sha256_hash(content)

\* content_sha256 as generate_challenge picks it
VerifierContentSha256(headers, content) ==
    IF GetOrUnsigned(Get(headers, ContentHeader)) # Str(Unsigned) THEN sha256_hash(content) ELSE Unsigned

Failure(e) == [err |-> e, challenge |-> None]

\* generate_challenge from _parse_key_date on
ChallengeOfDate(method, url, headers, content_sha256, auth, access_key_id, scope, kd) ==
    IF kd.err # "none" THEN Failure(kd.err)
    ELSE [err |-> "none",
          challenge |-> Some([scope |-> scope,
                              string_to_sign |->
                                  StringToSign(auth.auth_type, kd.key_date, scope,
                                               recreate_canonical_request_hash(method, url, headers,
                                                                               auth.signed_headers, content_sha256)),
                              signature |-> auth.signature,
                              access_key_id |-> access_key_id])]

\* generate_challenge from the split of the credential on
ChallengeOfCredential(method, url, headers, content_sha256, clock, auth, cred) ==
    IF Len(cred) # 2 THEN Failure("ValueError")
    ELSE IF Len(ButLast(Split(cred[2], "/"))) # 3 THEN Failure("ValueError")
    ELSE ChallengeOfDate(method, url, headers, content_sha256, auth, cred[1], cred[2],
                         parse_key_date(headers, clock))

\* generate_challenge from _parse_authorization on
ChallengeOfAuth(method, url, headers, content, clock, auth) ==
    IF auth.err # "none" THEN Failure(auth.err)
    ELSE ChallengeOfCredential(method, url, headers, VerifierContentSha256(headers, content),
                               clock, auth, SplitOnce(auth.credential, "/"))

\* generate_challenge(method, url, headers, content) at clock reading clock:
\* [err |-> "none", challenge |-> Some(Challenge)] or the exception raised
generate_challenge(method, url, headers, content, clock) ==
    IF ~Contains(headers, "Authorization") THEN Failure("KeyError")
    ELSE ChallengeOfAuth(method, url, headers, content, clock,
                         parse_authorization(Value(Get(headers, "Authorization")).v))

\* the exceptions of the package (subclasses of AWS4Exception)
AWS4Exceptions == {"InvalidDateError", "MissingHeaderError", "InvalidSignatureError"}

----------------------------------------------------------------------------
(* The caller's side: the requests handed to sign_request                  *)

\* value moved by n ticks
AddTicks(value, n) ==
    LET t == value.tick + n
    IN  [day |-> value.day + FloorDiv(t, DayTicks), tick |-> t - FloorDiv(t, DayTicks) * DayTicks, tz |-> value.tz]

\* the instant of value as an aware UTC datetime (what the clock reads then)
Instant(value) == [to_utc(value) EXCEPT !.tz = Some(0)]

\* 2023-08-09 01:02:03 and a fraction, naive; 2023-08-10 00:00:02 at UTC+01:00
SigningDates ==
    {[day |-> DaysFromCivil(2023, 8, 9), tick |-> 3723 * TicksPerSecond + 1, tz |-> None],
     [day |-> DaysFromCivil(2023, 8, 10), tick |-> 2 * TicksPerSecond, tz |-> Some(3600)]}

Contents == {None, Some("somecontent")}

\* what the caller put in the mapping for x-amz-date: nothing, the signing
\* timestamp, or a reading of the clock one second earlier
DateEntries(date) ==
    {<<>>,
     <<Entry("x-amz-date", Str(to_amz_date(date)))>>,
     <<Entry("X-Amz-Date", Str(to_amz_date(AddTicks(date, -TicksPerSecond))))>>}

\* what the caller put in the mapping for x-amz-content-sha256
ContentEntries(content) ==
    {<<>>,
     <<Entry("X-Amz-Content-Sha256", Str(Unsigned))>>,
     <<Entry(ContentHeader, Str(sha256_hash(content)))>>}

ExtraEntries ==
    {<<>>,
     <<Entry("foo", Str("hello    world")), Entry("BaZ", Str("wut"))>>,
     <<Entry("foo", Str("a")), Entry("User-Agent", Str("curl")), Entry("Foo", Str("b")),
       Entry("tags", List(<<"x  y", "z">>)), Entry("authorization", Str("old"))>>}

Request(url, headers, content, access_key_id, region, date) ==
    [service_name |-> "service", method |-> "PUT", url |-> url, region |-> region,
     headers |-> headers, content |-> content, access_key_id |-> access_key_id,
     secret_access_key |-> "secret-key", date |-> date]

\* requests of every shape of URL, header mapping, body and timestamp
PlainRequests ==
    {Request(url, x \o d \o c, content, "access-key", "ksa", date) :
        url \in {"http://host/my/path?foo=bar", "https://host/my/path?b=2&a=1", "http://host"}, content \in Contents, date \in SigningDates,
        x \in ExtraEntries, d \in UNION {DateEntries(dt) : dt \in SigningDates},
        c \in UNION {ContentEntries(ct) : ct \in Contents}}

\* requests whose access key, region or header names contain the separators
\* of the Authorization value
OddRequests ==
    {Request("http://host/my/path?foo=bar", x \o <<Entry("x-amz-date", Str(to_amz_date(date)))>>,
             Some("somecontent"), ak, region, date) :
        date \in SigningDates,
        ak \in {"access-key", "team/key", "a, b"},
        region \in {"ksa", "eu/west"},
        x \in {<<>>, <<Entry("x;y", Str("v"))>>}}

Requests == PlainRequests \cup OddRequests

----------------------------------------------------------------------------
(* A request changed on the way to the verifier                            *)

\* how many positions from either end of a string a change may hit
MaxTamper == 2

\* the bytes a changed position may get
TamperChars == {"1", "x"}

\* s with its i-th character replaced by c
Subst(s, i, c) == SubSeq(s, 1, i - 1) \o c \o SubSeq(s, i + 1, Len(s))

\* the single-byte changes of s
Changes(s) ==
    {Subst(s, i, c) : i \in {n \in 1..Len(s) : n <= MaxTamper \/ n > Len(s) - MaxTamper},
                      c \in TamperChars} \ {s}

\* the single-byte changes of a header value (of its first element for a list)
ValueChanges(value) ==
    IF value.is_list
    THEN IF value.v = <<>> THEN {} ELSE {List(<<c>> \o Tail(value.v)) : c \in Changes(Head(value.v))}
    ELSE {Str(c) : c \in Changes(value.v)}

\* the positions of the entries whose name SignedHeaders lists
SignedEntries(headers, signed_headers) ==
    {i \in 1..Len(headers) : InList(Split(signed_headers, ";"), Lower(headers[i].key))}

Mark(part, index) == [part |-> part, index |-> index]

\* the requests that differ from w in one byte of the body, the method, the
\* path, the query or the value of a signed header, with what was changed
Tamperings(w, signed_headers) ==
    {[wire |-> [w EXCEPT !.content = Some(c)], mark |-> Mark("body", 0)] :
        c \in IF IsNone(w.content) THEN {} ELSE Changes(Value(w.content))}
    \cup {[wire |-> [w EXCEPT !.method = c], mark |-> Mark("method", 0)] : c \in Changes(w.method)}
    \cup {[wire |-> [w EXCEPT !.url.path = c], mark |-> Mark("path", 0)] : c \in Changes(w.url.path)}
    \cup {[wire |-> [w EXCEPT !.url.query = Some(c)], mark |-> Mark("query", 0)] :
            c \in Changes(Value(w.url.query))}
    \cup UNION {{[wire |-> [w EXCEPT !.headers[i].value = v], mark |-> Mark(IF Lower(w.headers[i].key) = "x-amz-date" THEN "date" ELSE "header", i)] :
                    v \in ValueChanges(w.headers[i].value)} :
                i \in SignedEntries(w.headers, signed_headers)}

NoTamper == [part |-> "none", index |-> 0]
NoChallenge == [err |-> "none", challenge |-> None]

Init ==
    /\ req \in Requests
    /\ pc = "start"
    /\ signed = None
    /\ resigned = None
    /\ wire = None
    /\ tampered = NoTamper
    /\ now = Instant(req.date)
    /\ chal = NoChallenge
    /\ key = req.secret_access_key
    /\ verdict = "none"
    /\ hdrs = <<>>
    /\ canon = None
    /\ shdrs = ""
    /\ recanon = None
    /\ qs = None
    /\ cqs = None

\* the caller signs the request
SignRequest ==
    /\ pc = "start"
    /\ signed' = Some(sign_request(req.service_name, req.method, req.url, req.region, req.headers,
                                   req.content, req.access_key_id, req.secret_access_key, req.date))
    /\ pc' = "signed"
    /\ UNCHANGED <<req, resigned, wire, tampered, now, chal, key, verdict, hdrs, canon, shdrs, recanon, qs, cqs>>

\* the caller signs again, handing in the mapping the first call returned
ReSign ==
    /\ pc = "signed"
    /\ resigned' = Some(sign_request(req.service_name, req.method, req.url, req.region, Value(signed).headers,
                                     req.content, req.access_key_id, req.secret_access_key, req.date))
    /\ pc' = "resigned"
    /\ UNCHANGED <<req, signed, wire, tampered, now, chal, key, verdict, hdrs, canon, shdrs, recanon, qs, cqs>>

\* the signed request reaches the verifier as sent
Deliver ==
    /\ pc = "signed"
    /\ wire' = Some([method |-> req.method, url |-> urlparse(req.url),
                     headers |-> Value(signed).headers, content |-> req.content])
    /\ pc' = "delivered"
    /\ UNCHANGED <<req, signed, resigned, tampered, now, chal, key, verdict, hdrs, canon, shdrs, recanon, qs, cqs>>

\* the verifier extracts the challenge
GenerateChallenge ==
    /\ pc = "delivered"
    /\ chal' = generate_challenge(Value(wire).method, Value(wire).url, Value(wire).headers, Value(wire).content, now)
    /\ pc' = "challenged"
    /\ UNCHANGED <<req, signed, resigned, wire, tampered, now, key, verdict, hdrs, canon, shdrs, recanon, qs, cqs>>

\* the verifier validates the challenge it extracted
ValidateChallenge ==
    /\ pc = "challenged"
    /\ chal.err = "none"
    /\ verdict' = validate_challenge(Value(chal.challenge), key)
    /\ pc' = "validated"
    /\ UNCHANGED <<req, signed, resigned, wire, tampered, now, chal, key, hdrs, canon, shdrs, recanon, qs, cqs>>

\* one byte of the verified request is changed, the Authorization header is
\* kept, and the request is presented again
Tamper ==
    /\ pc = "validated"
    /\ verdict = "ok"
    /\ tampered = NoTamper
    /\ \E t \in Tamperings(Value(wire), parse_authorization(Value(Get(Value(wire).headers, "Authorization")).v).signed_headers) :
          /\ wire' = Some(t.wire)
          /\ tampered' = t.mark
    /\ pc' = "delivered"
    /\ chal' = NoChallenge
    /\ verdict' = "none"
    /\ UNCHANGED <<req, signed, resigned, now, key, hdrs, canon, shdrs, recanon, qs, cqs>>

Next == SignRequest \/ ReSign \/ Deliver \/ GenerateChallenge \/ ValidateChallenge \/ Tamper

Spec == Init /\ [][Next]_vars
----------------------------------------------------------------------------
(* The verifier's side: requests as a client may present them              *)

\* the timestamp of the presented requests: 2023-08-09 01:02:03
BaseDate == [day |-> DaysFromCivil(2023, 8, 9), tick |-> 3723 * TicksPerSecond, tz |-> None]

\* how far, in seconds, the verifier's clock is from the timestamp
MaxSkew == 7

\* the fields of the Authorization value as the client lays them out
AuthorizationFields(layout, credential, signed_headers, signature) ==
    CASE layout = "full" ->
            <<"Credential=" \o credential, "SignedHeaders=" \o signed_headers, "Signature=" \o signature>>
      [] layout = "upper" ->
            <<"CREDENTIAL=" \o credential, "signedheaders=" \o signed_headers, "SiGnAtUrE=" \o signature>>
      [] layout = "no-credential" ->
            <<"SignedHeaders=" \o signed_headers, "Signature=" \o signature>>
      [] layout = "no-signedheaders" ->
            <<"Credential=" \o credential, "Signature=" \o signature>>
      [] layout = "no-signature" ->
            <<"Credential=" \o credential, "SignedHeaders=" \o signed_headers>>
      [] OTHER -> <<>>

\* what the client sends as x-amz-date: nothing, the timestamp, or no date
DateHeaders == {<<>>, <<Entry("x-amz-date", Str(to_amz_date(BaseDate)))>>, <<Entry("x-amz-date", Str("yesterday"))>>}

\* the headers of the presented request before Authorization is added
ClientHeaders(date_header) ==
    <<Entry("foo", Str("hello    world")), Entry("BaZ", Str("wut"))>> \o date_header
        \o <<Entry(ContentHeader, Str(sha256_hash(Some("somecontent"))))>>

\* the request of a client that holds the secret key and signs, with the
\* library's key and signature derivation, the scope and layout of its choice
ClientSigned(r, headers, layout, scope, crh) ==
    [method |-> r.method, url |-> urlparse(r.url), content |-> r.content,
     headers |-> Append(headers,
                        Entry("Authorization",
                              Str(Algorithm \o " " \o
                                  Join(AuthorizationFields(
                                           layout, r.access_key_id \o "/" \o scope, crh[2],
                                           generate_signature(
                                               generate_signing_key(r.secret_access_key, to_signer_date(r.date),
                                                                    r.region, r.service_name),
                                               StringToSign(Algorithm, to_amz_date(r.date), scope, crh[1]))),
                                       ", "))))]

ClientRequest(r, headers, layout, terminal) ==
    ClientSigned(r, headers, layout,
                 to_signer_date(r.date) \o "/" \o r.region \o "/" \o r.service_name \o "/" \o terminal,
                 generate_canonical_request_hash(r.method, urlparse(r.url), headers, sha256_hash(r.content)))

BaseRequest == Request("http://host/my/path?foo=bar", <<>>, Some("somecontent"), "access-key", "ksa", BaseDate)

\* the requests presented to the verifier: those the client signed as it
\* sends them, those whose signed Host header was dropped on the way, and
\* those whose SignedHeaders names a Host header the client never had
Received ==
    {ClientRequest(BaseRequest, ClientHeaders(d), layout, terminal) :
        d \in DateHeaders,
        layout \in {"full", "upper", "no-credential", "no-signedheaders", "no-signature", "bare"},
        terminal \in {"aws4_request", "bogus"}}
    \cup {ClientSigned(BaseRequest, ClientHeaders(d), "full",
                       SignerScope(BaseDate, BaseRequest.region, BaseRequest.service_name),
                       generate_canonical_request_hash(BaseRequest.method, urlparse(BaseRequest.url),
                                                       <<Entry("Host", Str("host"))>> \o ClientHeaders(d),
                                                       sha256_hash(BaseRequest.content))) :
              d \in DateHeaders}
    \cup {ClientSigned(BaseRequest, ClientHeaders(d), "full",
                       SignerScope(BaseDate, BaseRequest.region, BaseRequest.service_name),
                       RequestHashPair(BaseRequest.method, urlparse(BaseRequest.url),
                                       <<generate_canonical_headers(ClientHeaders(d))[1],
                                         "host;" \o generate_canonical_headers(ClientHeaders(d))[2]>>,
                                       sha256_hash(BaseRequest.content))) :
              d \in DateHeaders}

InitVerify ==
    /\ req = BaseRequest
    /\ pc = "delivered"
    /\ signed = None
    /\ resigned = None
    /\ wire \in {Some(w) : w \in Received}
    /\ tampered = NoTamper
    /\ now \in {AddTicks(Instant(BaseDate), k) : k \in (0 - MaxSkew * TicksPerSecond)..(MaxSkew * TicksPerSecond)}
    /\ chal = NoChallenge
    /\ key = req.secret_access_key
    /\ verdict = "none"
    /\ hdrs = <<>>
    /\ canon = None
    /\ shdrs = ""
    /\ recanon = None
    /\ qs = None
    /\ cqs = None

NextVerify == GenerateChallenge \/ ValidateChallenge

SpecVerify == InitVerify /\ [][NextVerify]_vars

----------------------------------------------------------------------------
(* Challenges handed to validate_challenge directly                        *)

Scopes ==
    {"20230809/ksa/service/aws4_request", "20230810/ksa/service/aws4_request",
     "20230809/ksa/service/bogus", "invalid/invalid/invalid/invalid",
     "invalid", "a/b/c", "a/b/c/d/e"}

StringsToSign == {"AWS4-HMAC-SHA256" \o NL \o "20230809T010203Z", "sts"}

SecretKeys == {"secret-key", "other-key"}

\* the signature a holder of secret makes for the first three segments of a
\* four-segment scope
SignatureOfParts(secret, parts, string_to_sign) ==
    generate_signature(generate_signing_key(secret, parts[1], parts[2], parts[3]), string_to_sign)

Signatures ==
    {"deadbeef"} \cup
    {SignatureOfParts(k, Split(sc, "/"), sts) :
        k \in SecretKeys, sc \in {x \in Scopes : Len(Split(x, "/")) = 4}, sts \in StringsToSign}

Challenges ==
    {[scope |-> sc, string_to_sign |-> sts, signature |-> sig, access_key_id |-> "access-key"] :
        sc \in Scopes, sts \in StringsToSign, sig \in Signatures}

InitValidate ==
    /\ req = BaseRequest
    /\ pc = "challenged"
    /\ signed = None
    /\ resigned = None
    /\ wire = None
    /\ tampered = NoTamper
    /\ now = Instant(BaseDate)
    /\ chal \in {[err |-> "none", challenge |-> Some(c)] : c \in Challenges}
    /\ key \in SecretKeys
    /\ verdict = "none"
    /\ hdrs = <<>>
    /\ canon = None
    /\ shdrs = ""
    /\ recanon = None
    /\ qs = None
    /\ cqs = None

SpecValidate == InitValidate /\ [][ValidateChallenge]_vars

----------------------------------------------------------------------------
(* Header mappings handed to the full-mode canonicalizer                   *)

\* how many entries a mapping has at most
MaxHeaders == 3

HeaderPool ==
    {Entry("foo", Str("a")), Entry("Foo", Str("b")), Entry("foo", Str("hello    world")),
     Entry("BaZ", Str("wut")), Entry("tags", List(<<"x  y", "z">>)),
     Entry("Authorization", Str("old")), Entry("User-Agent", Str("curl")), Entry("ACCEPT", Str("*")),
     Entry("Accept-Encoding", Str("gzip")), Entry("connection", Str("close"))}

InitHeaders ==
    /\ req = BaseRequest
    /\ pc = "build"
    /\ signed = None
    /\ resigned = None
    /\ wire = None
    /\ tampered = NoTamper
    /\ now = Instant(BaseDate)
    /\ chal = NoChallenge
    /\ key = req.secret_access_key
    /\ verdict = "none"
    /\ hdrs = <<>>
    /\ canon = None
    /\ shdrs = ""
    /\ recanon = None
    /\ qs = None
    /\ cqs = None

\* headers.add(key, value)
AddHeader ==
    /\ pc = "build"
    /\ Len(hdrs) < MaxHeaders
    /\ \E e \in HeaderPool : hdrs' = Append(hdrs, e)
    /\ UNCHANGED <<pc, req, signed, resigned, wire, tampered, now, chal, key, verdict, canon, shdrs, recanon, qs, cqs>>

\* the mapping is canonicalized in full mode
Canonicalize ==
    /\ pc = "build"
    /\ canon' = Some(generate_canonical_headers(hdrs))
    /\ pc' = "canon"
    /\ UNCHANGED <<req, signed, resigned, wire, tampered, now, chal, key, verdict, hdrs, shdrs, recanon, qs, cqs>>

NextHeaders == AddHeader \/ Canonicalize

SpecHeaders == InitHeaders /\ [][NextHeaders]_vars

----------------------------------------------------------------------------
(* Both modes of the canonicalizer and the query canonicalizer on inputs   *)
(* of their own                                                            *)

\* headers.add of a name that holds the separator of the signed-header list
AddSeparated ==
    /\ pc = "build"
    /\ Len(hdrs) < MaxHeaders
    /\ hdrs' = Append(hdrs, Entry("x;y", Str("v")))
    /\ UNCHANGED <<pc, req, signed, resigned, wire, tampered, now, chal, key, verdict, canon, shdrs, recanon, qs, cqs>>

\* the mapping, with Authorization set as sign_request sets it, is
\* canonicalized in restricted mode for a signed-header list
Recreate ==
    /\ pc = "canon"
    /\ \E s \in {Value(canon)[2], "foo", "authorization;foo;tags"} :
          /\ shdrs' = s
          /\ recanon' = Some(recreate_canonical_headers(SetItem(hdrs, "Authorization", Str("signed")), s))
    /\ pc' = "recreated"
    /\ UNCHANGED <<req, signed, resigned, wire, tampered, now, chal, key, verdict, hdrs, canon, qs, cqs>>

MaxPairs == 3

\* the caller extends the raw query by one more pair
AddPair ==
    /\ \/ pc = "build" /\ hdrs = <<>>
       \/ pc = "pairs" /\ Len(Split(Value(qs), "&")) < MaxPairs
    /\ \E p \in {"", "a=1", "b=2", "a=0", "c", "a=b=c", "a=b1"} : qs' = Some(IF IsNone(qs) THEN p ELSE Value(qs) \o "&" \o p)
    /\ pc' = "pairs"
    /\ UNCHANGED <<req, signed, resigned, wire, tampered, now, chal, key, verdict, hdrs, canon, shdrs, recanon, cqs>>

\* the raw query, or none, is canonicalized
CanonicalizeQuery ==
    /\ \/ pc = "build" /\ hdrs = <<>>
       \/ pc = "pairs"
    /\ cqs' = Some(generate_canonical_query_string(qs))
    /\ pc' = "query"
    /\ UNCHANGED <<req, signed, resigned, wire, tampered, now, chal, key, verdict, hdrs, canon, shdrs, recanon, qs>>

SpecCanonical ==
    InitHeaders /\ [][AddHeader \/ AddSeparated \/ Canonicalize \/ Recreate \/ AddPair \/ CanonicalizeQuery]_vars

----------------------------------------------------------------------------
(* Round trip, tampering, determinism and frame of sign_request (Spec)     *)

\* s contains none of the separators of the Authorization value
Plain(s) == Find(s, "/") = 0 /\ Find(s, ", ") = 0 /\ Find(s, ";") = 0

\* the request r as the verifier expects it from the caller: x-amz-date is
\* the signing timestamp, an x-amz-content-sha256 entry of the caller agrees
\* with the scheme, and no name contains a separator
RoundTripInputs(r) ==
    /\ Get(r.headers, "x-amz-date") = Some(Str(to_amz_date(r.date)))
    /\ Contains(r.headers, ContentHeader) =>
          ((Get(r.headers, ContentHeader) = Some(Str(Unsigned))) <=> (urlparse(r.url).scheme # "http"))
    /\ Plain(r.access_key_id) /\ Plain(r.region) /\ Plain(r.service_name)
    /\ \A i \in 1..Len(r.headers) : Plain(r.headers[i].key)

\* the verification of the request as signed got through without an error
Verified ==
    /\ pc = "challenged" => chal.err = "none"
    /\ pc = "validated" => verdict = "ok"

\* C1 as stated: whatever the caller put in the mapping, signing, then
\* extracting the challenge at the signing time, then validating with the
\* same secret completes without error
C1_RoundTrip == tampered = NoTamper => Verified

\* C1 amended: the round trip completes without error when the mapping
\* carries the signing timestamp as x-amz-date, a caller-supplied
\* x-amz-content-sha256 is UNSIGNED-PAYLOAD exactly for a scheme other than
\* http, and access key, region, service and header names contain no
\* separator
C1_RoundTripAmended == (tampered = NoTamper /\ RoundTripInputs(req)) => Verified

\* C1 witness: such a request, with a caller-supplied content hash and an
\* aware timestamp, validated
C1_Witness ==
    /\ pc = "validated" /\ tampered = NoTamper /\ RoundTripInputs(req)
    /\ Contains(req.headers, ContentHeader)
    /\ ~IsNone(req.date.tz)
    /\ verdict = "ok"

\* entry i of headers is followed by an entry of the same name
Shadowed(headers, i) == \E j \in (i + 1)..Len(headers) : Lower(headers[j].key) = Lower(headers[i].key)

\* the change made to the request does not reach what was signed: the body
\* under UNSIGNED-PAYLOAD, or an entry that a later entry of its name shadows
Unsigned_Change ==
    \/ tampered.part = "body" /\ Get(Value(wire).headers, ContentHeader) = Some(Str(Unsigned))
    \/ tampered.part = "header" /\ Shadowed(Value(wire).headers, tampered.index)

C7_Resign ==
    pc = "resigned" =>
        /\ Get(Value(resigned).headers, "Authorization") = Get(Value(signed).headers, "Authorization")
        /\ Value(resigned).headers = Value(signed).headers

\* C7 witness: a second call on a mapping into which the first call
\* injected both Authorization and x-amz-content-sha256
C7_Witness ==
    /\ pc = "resigned"
    /\ ~Contains(req.headers, ContentHeader) /\ ~Contains(req.headers, "Authorization")
    /\ Contains(Value(resigned).headers, ContentHeader) /\ Contains(Value(resigned).headers, "Authorization")

\* the entries of headers under other names than those of names
Others(headers, names) == Select(headers, {i \in 1..Len(headers) : Lower(headers[i].key) \notin names})

\* C8: the returned mapping has one Authorization entry, the new one; the
\* content hash entry is the computed hash only where the caller had none;
\* all other entries are the caller's
C8_Frame ==
    pc = "signed" =>
        /\ Cardinality(Positions(Value(signed).headers, "Authorization")) = 1
        /\ SubSeq(Value(Get(Value(signed).headers, "Authorization")).v, 1, 28) = "AWS4-HMAC-SHA256 Credential="
        /\ Others(Value(signed).headers, {"authorization", ContentHeader}) = Others(req.headers, {"authorization", ContentHeader})
        /\ IF Contains(req.headers, ContentHeader)
           THEN Others(Value(signed).headers, {"authorization"}) = Others(req.headers, {"authorization"})
           ELSE Others(Value(signed).headers, {"authorization"}) =
                    Append(Others(req.headers, {"authorization"}),
                           Entry(ContentHeader,
                                 Str(IF SubSeq(req.url, 1, 5) = "http:" THEN sha256_hash(req.content) ELSE Unsigned)))

\* C8 witness: a mapping that came with an old Authorization and with a
\* content hash entry that is not the hash sign_request computes
C8_Witness ==
    /\ pc = "signed"
    /\ Get(req.headers, "Authorization") = Some(Str("old"))
    /\ Get(req.headers, ContentHeader) = Some(Str(Unsigned))
    /\ SubSeq(req.url, 1, 5) = "http:"
----------------------------------------------------------------------------
(* The verifier's checks (SpecVerify, SpecValidate)                        *)

\* the Authorization value of the presented request
AuthorizationText == Value(Get(Value(wire).headers, "Authorization")).v

\* the Authorization value names field f, in whatever case
HasField(f) == Find(Lower(AuthorizationText), f \o "=") # 0

WellFormed == HasField("credential") /\ HasField("signedheaders") /\ HasField("signature")

\* the presented request carries the timestamp as x-amz-date
Dated == Get(Value(wire).headers, "x-amz-date") = Some(Str(to_amz_date(BaseDate)))

\* the verifier's clock minus the timestamp, in ticks
Drift == TotalTicks(now, Instant(BaseDate))

\* C4: for a well-formed Authorization, generate_challenge fails with
\* InvalidDateError when clock and x-amz-date are 6 seconds or more apart,
\* early or late, and does not fail when they are 5 seconds or less apart
C4_Drift ==
    (pc = "challenged" /\ WellFormed /\ Dated) =>
        /\ (Drift >= 6 * TicksPerSecond \/ Drift <= 0 - 6 * TicksPerSecond) => chal.err = "InvalidDateError"
        /\ (Drift <= 5 * TicksPerSecond /\ Drift >= 0 - 5 * TicksPerSecond) => chal.err = "none"

\* C4 witness: a timestamp exactly 6 seconds ahead of the clock is rejected
C4_Witness ==
    /\ pc = "challenged" /\ WellFormed /\ Dated
    /\ Drift = 0 - 6 * TicksPerSecond
    /\ chal.err = "InvalidDateError"

\* C5 as stated: an Authorization value lacking credential, signedheaders
\* or signature makes generate_challenge fail with an error of the
\* library's taxonomy, without a Challenge
C5_MissingField ==
    (pc = "challenged" /\ ~WellFormed) => (chal.err \in AWS4Exceptions /\ chal.challenge = None)

\* C5 amended: such a value makes generate_challenge fail with the built-in
\* KeyError, without a Challenge, whatever x-amz-date and the clock are;
\* fields present in any letter case raise no KeyError
C5_MissingFieldAmended ==
    pc = "challenged" =>
        /\ ~WellFormed => (chal.err = "KeyError" /\ chal.challenge = None)
        /\ WellFormed => chal.err # "KeyError"

\* C5 witness: a value without signature on a request without x-amz-date
C5_Witness ==
    /\ pc = "challenged"
    /\ HasField("credential") /\ HasField("signedheaders") /\ ~HasField("signature")
    /\ ~Contains(Value(wire).headers, "x-amz-date")
    /\ chal.err = "KeyError"

\* sc is date/region/service/aws4_request
ScopeForm(sc) == Len(Split(sc, "/")) = 4 /\ Split(sc, "/")[4] = "aws4_request"

\* C9: the scope sign_request writes, and the scope of every Challenge that
\* generate_challenge returns and validate_challenge accepts, has four
\* segments of which the last is aws4_request
C9_Scope ==
    /\ ~IsNone(signed) => ScopeForm(Value(signed).scope)
    /\ (pc = "validated" /\ verdict = "ok") => ScopeForm(Value(chal.challenge).scope)

\* the signature recomputed from the secret key, the date, region and
\* service of the scope, and the string to sign
Recomputed(c, secret) == SignatureOfParts(secret, Split(c.scope, "/"), c.string_to_sign)

\* C3: validate_challenge either returns, which it does when the recomputed
\* signature equals the one of the challenge, or fails with
\* InvalidSignatureError
C3_TwoOutcomes ==
    pc = "validated" =>
        /\ verdict \in {"ok", "InvalidSignatureError"}
        /\ verdict = "ok" <=>
              (Len(Split(Value(chal.challenge).scope, "/")) >= 3
                  /\ Recomputed(Value(chal.challenge), key) = Value(chal.challenge).signature)

----------------------------------------------------------------------------
(* Full-mode canonicalization (SpecHeaders)                                *)

\* the names of the signed-header list
SignedNames == Split(Value(canon)[2], ";")

\* C6: the signed-header list of full mode names none of authorization,
\* user-agent, accept, accept-encoding, connection, and names every other
\* header of the mapping in lowercase
C6_Exclusion ==
    pc = "canon" =>
        /\ \A x \in {"authorization", "user-agent", "accept", "accept-encoding", "connection"} :
              ~InList(SignedNames, x)
        /\ \A i \in 1..Len(hdrs) :
              Lower(hdrs[i].key) \notin {"authorization", "user-agent", "accept", "accept-encoding", "connection"}
                  => InList(SignedNames, Lower(hdrs[i].key))

\* C6 witness: a mapping with User-Agent and ACCEPT next to a signed header
C6_Witness ==
    /\ pc = "canon"
    /\ Contains(hdrs, "user-agent") /\ Contains(hdrs, "accept") /\ Contains(hdrs, "baz")
    /\ Value(canon)[2] = "baz"

\* the lowercase names of the mapping that full mode includes
Included ==
    {Lower(hdrs[i].key) : i \in 1..Len(hdrs)}
        \ {"authorization", "user-agent", "accept", "accept-encoding", "connection"}

\* the names of N in ascending order
Ascending(N) == [i \in 1..Cardinality(N) |-> CHOOSE n \in N : Cardinality({m \in N : StrLess(m, n)}) = i - 1]

\* all values the mapping carries under name, in the order of the entries
RECURSIVE ValuesOf(_, _)
ValuesOf(headers, name) ==
    IF headers = <<>> THEN <<>>
    ELSE (IF Lower(Head(headers).key) # name THEN <<>>
          ELSE IF Head(headers).value.is_list THEN Head(headers).value.v
          ELSE <<Head(headers).value.v>>) \o ValuesOf(Tail(headers), name)

\* name:value with the values space-collapsed and joined by a comma
LineOf(headers, name) ==
    name \o ":" \o Join([i \in 1..Len(ValuesOf(headers, name)) |-> CollapseSpaces(ValuesOf(headers, name)[i])], ",")

\* C10: the canonical block has, in ascending order of the lowercase name,
\* one line name:value per included name, the value being all values the
\* mapping carries under that name, space-collapsed and joined by a comma
C10_Block ==
    pc = "canon" =>
        Value(canon)[1] = Join([i \in 1..Cardinality(Included) |-> LineOf(hdrs, Ascending(Included)[i])], NL)
----------------------------------------------------------------------------
(* Restricted mode against full mode (SpecCanonical)                       *)

\* the mapping as restricted mode receives it
Presented == SetItem(hdrs, "Authorization", Str("signed"))

\* the lowercase names of the presented mapping that the list names
Restricted == {Lower(Presented[i].key) : i \in 1..Len(Presented)} \cap {Split(shdrs, ";")[j] : j \in 1..Len(Split(shdrs, ";"))}

\* the line of name as full mode writes it: the value of the last entry of
\* that name, normalized
LastLine(headers, name) ==
    name \o ":" \o CanonicalValue(headers[CHOOSE i \in Positions(headers, name) :
                                              \A j \in Positions(headers, name) : j <= i].value)

\* restricted mode gave the block of exactly the named headers, and for the
\* list full mode returned it gave the block and the request hash of full mode
SameSubset ==
    /\ Value(recanon) = Join([i \in 1..Cardinality(Restricted) |-> LastLine(Presented, Ascending(Restricted)[i])], NL)
    /\ shdrs = Value(canon)[2] =>
          /\ Value(recanon) = Value(canon)[1]
          /\ recreate_canonical_request_hash("PUT", urlparse(req.url), Presented, shdrs, Unsigned)
                = generate_canonical_request_hash("PUT", urlparse(req.url), hdrs, Unsigned)[1]

\* C11 as stated: for every mapping and list, restricted mode yields the
\* block of exactly the headers the list names, normalized and ordered as
\* in full mode, and for the list full mode returned the same block and
\* the same canonical request hash as full mode
C11_Restricted == pc = "recreated" => SameSubset

\* C11 amended: the same, for mappings none of whose header names
\* contains the separator ';' of the signed-header list
C11_RestrictedAmended ==
    (pc = "recreated" /\ \A i \in 1..Len(hdrs) : Find(hdrs[i].key, ";") = 0) => SameSubset

\* C11 witness: a mapping with an excluded header and a repeated name,
\* recreated from the list full mode returned
C11_Witness ==
    /\ pc = "recreated"
    /\ shdrs = Value(canon)[2] /\ shdrs = "foo"
    /\ Contains(hdrs, "user-agent") /\ Cardinality(Positions(hdrs, "foo")) = 2
    /\ Value(recanon) = Value(canon)[1]
----------------------------------------------------------------------------
(* The canonical query string (SpecCanonical)                              *)

\* the raw query as text, an absent one being the empty text
RawQuery == IF IsNone(qs) THEN "" ELSE Value(qs)

\* a pair split on its first '=' into name and value; a pair without '='
\* is a name alone
NameValue(pair) ==
    IF Find(pair, "=") = 0 THEN <<pair>>
    ELSE <<SubSeq(pair, 1, Find(pair, "=") - 1), SubSeq(pair, Find(pair, "=") + 1, Len(pair))>>

\* the pairs of the raw query in the claimed order, rejoined
ByNameThenValue ==
    Join([i \in 1..Len(Split(RawQuery, "&")) |->
             Join(Sorted([j \in 1..Len(Split(RawQuery, "&")) |-> NameValue(Split(RawQuery, "&")[j])])[i], "=")], "&")

\* the pairs of a query as a multiset
PairBag(query) == [p \in {Split(query, "&")[i] : i \in 1..Len(Split(query, "&"))} |->
                      Cardinality({i \in 1..Len(Split(query, "&")) : Split(query, "&")[i] = p})]

----------------------------------------------------------------------------
(* A signed-header name the request does not carry (SpecVerify)            *)

\* SignedHeaders names Host, and the presented request carries no Host
HostAbsent ==
    /\ Find(AuthorizationText, "SignedHeaders=host;baz;foo;x-amz-content-sha256;x-amz-date,") # 0
          \/ Find(AuthorizationText, "SignedHeaders=baz;foo;host;x-amz-content-sha256;x-amz-date,") # 0
    /\ \A i \in 1..Len(Value(wire).headers) : Lower(Value(wire).headers[i].key) # "host"

\* the list exactly as the Authorization header gives it
ListedNames ==
    IF Find(AuthorizationText, "SignedHeaders=host;") # 0
    THEN "host;baz;foo;x-amz-content-sha256;x-amz-date"
    ELSE "baz;foo;host;x-amz-content-sha256;x-amz-date"

\* the canonical block of the headers the request does carry
CarriedBlock ==
    "baz:wut" \o NL \o "foo:hello world" \o NL \o "x-amz-content-sha256:" \o sha256_hash(Some("somecontent"))
        \o NL \o "x-amz-date:" \o to_amz_date(BaseDate)

\* C13: with a well-formed Authorization and a fresh x-amz-date,
\* generate_challenge returns a Challenge although SignedHeaders names a
\* header the request does not carry; the canonical block omits that name
\* and the signed-headers line keeps the list as received
C13_AbsentName ==
    (pc \in {"challenged", "validated"} /\ WellFormed /\ Dated /\ HostAbsent
        /\ Drift <= 5 * TicksPerSecond /\ Drift >= 0 - 5 * TicksPerSecond) =>
        /\ chal.err = "none"
        /\ chal.challenge # None
        /\ Value(chal.challenge).string_to_sign
              = Algorithm \o NL \o to_amz_date(BaseDate) \o NL \o Value(chal.challenge).scope \o NL
                  \o sha256_hash(Some("PUT" \o NL \o "/my/path" \o NL \o "foo=bar" \o NL \o CarriedBlock \o NL \o NL
                                          \o ListedNames \o NL \o sha256_hash(Some("somecontent"))))

\* C13 witness: a request whose SignedHeaders names the absent Host gets
\* its Challenge and, signed over the block without Host, validates
C13_Witness ==
    /\ pc = "validated" /\ WellFormed /\ Dated /\ HostAbsent
    /\ Find(AuthorizationText, "SignedHeaders=host;") # 0
    /\ chal.challenge # None
    /\ verdict = "ok"
=============================================================================
